---- MODULE Spec2Model ----
(***************************************************************************)
(* A model of ml_model/badgyal_local/model.py: the quantized residual      *)
(* network (Net), its parameter store (reset_parameters, from_checkpoint,  *)
(* quantize_parameters, export_proto, import_proto), its weight traversal  *)
(* (extract_weights) and its forward pass with the fixed-point helpers     *)
(* cursed_sigmoid and cursed_batchnorm.                                    *)
(*                                                                         *)
(* Numbers.  Every tensor element is a dyadic rational <<m, e>> = m / 2^e, *)
(* kept normalised (m odd or e = 0).  float32 values are dyadic, and so    *)
(* are all results of +, *, round, trunc and division by QUANTIZE_FACTOR   *)
(* (a power of two).  Arithmetic is exact while the significand stays      *)
(* below 2^FloatMantissa; past that float32 rounds and the value is        *)
(* Inexact.  Division and multiplication by 99 (export / import) round to  *)
(* FloatMantissa bits, to nearest, ties to even, as float32 does.          *)
(*                                                                         *)
(* Tensors.  A tensor is a sequence of elements.  Channel and spatial      *)
(* extents are 1, except: the first convolution keeps two input planes     *)
(* (<<other planes, plane 109>>), squeeze-excitation lin2 has two outputs  *)
(* (<<scale, shift>>), the policy convolution has one output per position  *)
(* of the policy map and the last linear layers have one output per value  *)
(* / policy slot.                                                          *)
(***************************************************************************)
EXTENDS Integers, Sequences, FiniteSets, TLC

\* ---------------------------------------------------------------- bounds
\* QUANTIZE_FACTOR is 2^QuantizeBits.  The program uses 1024 ** 2 = 2^20;
\* the model scales it down so that products stay inside TLC's integers.
QuantizeBits == 2
\* residual_blocks ranges over 0 .. MaxBlocks
MaxBlocks == 1
\* a run makes at most this many calls that change the parameter store
MaxCalls == 3
\* cursed_sigmoid is applied to the integers of magnitude up to MaxGate * Q
MaxGate == 8
\* create_gather_tensor is applied to the maps of up to this many positions
MaxMapLen == 4
\* cursed_batchnorm is applied to the integers of magnitude up to this
MaxActivation == 6

\* ------------------------------------------------------- program constants
QUANTIZE_FACTOR == 2 ^ QuantizeBits
SIGMOID_PIECEWISE_BOUND == 2
LegacyChannel == 109
LegacyScale == 99
\* significand width of torch's default dtype, float32
FloatMantissa == 24

\* ------------------------------------------------------------- arithmetic
\* F applied to the value of v, v evaluated once
With(v, F(_)) == CHOOSE r \in {F(u) : u \in {v}} : TRUE

Abs(n) == IF n < 0 THEN -n ELSE n

\* the largest magnitude the model multiplies without leaving TLC's integers
IntLimit == 2 ^ 30
ExactLimit == 2 ^ FloatMantissa

\* a value float32 no longer holds exactly
Inexact == <<0, -1>>
IsExact(a) == a[2] >= 0

RECURSIVE DNorm(_, _)
DNorm(m, e) ==
    IF e > 0 /\ m % 2 = 0 THEN DNorm(m \div 2, e - 1) ELSE <<m, e>>

\* m / 2^e as a value: normalised, or Inexact past the float32 significand
DMake(m, e) ==
    LET n == DNorm(m, e)
    IN  IF Abs(n[1]) >= ExactLimit THEN Inexact ELSE n

DInt(n) == DMake(n, 0)
DZero == <<0, 0>>

MulFits(x, y) == x = 0 \/ y = 0 \/ Abs(x) <= IntLimit \div Abs(y)

DMul(a, b) ==
    IF ~IsExact(a) \/ ~IsExact(b) THEN Inexact
    ELSE IF a[1] = 0 \/ b[1] = 0 THEN DZero
    ELSE IF a[2] + b[2] > 30 \/ ~MulFits(a[1], b[1]) THEN Inexact
    ELSE DMake(a[1] * b[1], a[2] + b[2])

DAdd(a, b) ==
    IF ~IsExact(a) \/ ~IsExact(b) THEN Inexact
    ELSE IF a[1] = 0 THEN b
    ELSE IF b[1] = 0 THEN a
    ELSE LET e == IF a[2] > b[2] THEN a[2] ELSE b[2]
         IN  IF e > 30 \/ ~MulFits(a[1], 2 ^ (e - a[2]))
                       \/ ~MulFits(b[1], 2 ^ (e - b[2])) THEN Inexact
             ELSE DMake(a[1] * 2 ^ (e - a[2]) + b[1] * 2 ^ (e - b[2]), e)

DNeg(a) == IF IsExact(a) THEN <<-a[1], a[2]>> ELSE Inexact
DSub(a, b) == DAdd(a, DNeg(b))

\* a <= b for exact values (the sign of b - a)
DLeq(a, b) == LET d == DSub(b, a) IN IsExact(d) /\ d[1] >= 0

\* integer quotient rounded toward zero
TruncDiv(n, d) == IF n >= 0 THEN n \div d ELSE -((-n) \div d)

\* torch.trunc: the integer part, toward zero
DTrunc(a) ==
    IF ~IsExact(a) THEN Inexact
    ELSE IF a[2] > 30 THEN DZero
    ELSE <<TruncDiv(a[1], 2 ^ a[2]), 0>>

\* torch.round: to the nearest integer, ties to the even one
DRound(a) ==
    IF ~IsExact(a) THEN Inexact
    ELSE IF a[2] > 30 THEN DZero
    ELSE LET d == 2 ^ a[2]
             f == a[1] \div d
             r == a[1] % d
         IN  IF 2 * r < d THEN <<f, 0>>
             ELSE IF 2 * r > d THEN <<f + 1, 0>>
             ELSE IF f % 2 = 0 THEN <<f, 0>> ELSE <<f + 1, 0>>

\* x * QUANTIZE_FACTOR and x / QUANTIZE_FACTOR (exact: a power of two)
DMulQ(a) == DMul(a, DInt(QUANTIZE_FACTOR))
DDivQ(a) == IF IsExact(a) THEN DMake(a[1], a[2] + QuantizeBits) ELSE Inexact

\* nn.ReLU on one element
DRelu(a) == IF IsExact(a) /\ a[1] < 0 THEN DZero ELSE a

IsInteger(a) == IsExact(a) /\ a[2] = 0

IsPow2(n) == \E j \in 0..30 : 2 ^ j = n
Log2(n) == CHOOSE j \in 0..30 : 2 ^ j = n

\* torch.sqrt where the root is dyadic (the variances the model draws are
\* powers of four); any other argument has no float32-exact root
DSqrt(a) ==
    IF IsExact(a) /\ a[1] > 0 /\ IsPow2(a[1]) /\ (Log2(a[1]) - a[2]) % 2 = 0
    THEN LET h == (Log2(a[1]) - a[2]) \div 2
         IN  IF h >= 0 THEN DInt(2 ^ h) ELSE DMake(1, -h)
    ELSE Inexact

\* a / b where b is a power of two (what DSqrt returns)
DDivPow2(a, b) ==
    IF ~IsExact(a) \/ ~IsExact(b) \/ b[1] <= 0 \/ ~IsPow2(b[1]) THEN Inexact
    ELSE LET h == Log2(b[1]) - b[2]
         IN  IF h >= 0 THEN DMake(a[1], a[2] + h)
             ELSE DMul(a, DInt(2 ^ (-h)))


\* ------------------------------------------- float32 scaling by 99
\* n doubled until it reaches lo, with the number of doublings
RECURSIVE ScaleUp(_, _, _)
ScaleUp(n, k, lo) == IF n >= lo THEN <<n, k>> ELSE ScaleUp(2 * n, k + 1, lo)

\* n halved (floor) until it is below hi, with the number of halvings
RECURSIVE ShiftDown(_, _, _)
ShiftDown(n, t, hi) ==
    IF n \div (2 ^ t) < hi THEN t ELSE ShiftDown(n, t + 1, hi)

\* n / d to the nearest integer, ties to even (n >= 0, d > 0)
RoundDivEven(n, d) ==
    LET f == n \div d
        r == n % d
    IN  IF 2 * r < d THEN f
        ELSE IF 2 * r > d THEN f + 1
        ELSE IF f % 2 = 0 THEN f ELSE f + 1

\* float32(a / 99): numpy's in-place `/= 99` on a float32 array
FDivLegacy(a) ==
    IF ~IsExact(a) THEN Inexact
    ELSE IF a[1] = 0 THEN DZero
    ELSE LET up == ScaleUp(Abs(a[1]), 0, LegacyScale * 2 ^ (FloatMantissa - 1))
             q  == RoundDivEven(up[1], LegacyScale)
             sg == IF a[1] < 0 THEN -1 ELSE 1
         IN  DNorm(sg * q, a[2] + up[2])

\* float32(a * 99): torch's in-place `*= 99` on a float32 tensor
FMulLegacy(a) ==
    IF ~IsExact(a) THEN Inexact
    ELSE IF a[1] = 0 THEN DZero
    ELSE LET n  == Abs(a[1]) * LegacyScale
             t  == ShiftDown(n, 0, ExactLimit)
             q  == RoundDivEven(n, 2 ^ t)
             sg == IF a[1] < 0 THEN -1 ELSE 1
         IN  IF a[2] >= t THEN DNorm(sg * q, a[2] - t)
             ELSE DMake(sg * q * 2 ^ (t - a[2]), 0)

\* ------------------------------------------------------------- tensors
RECURSIVE SeqSum(_)
SeqSum(s) == IF s = <<>> THEN DZero ELSE DAdd(Head(s), SeqSum(Tail(s)))

TRound(t) == [i \in 1..Len(t) |-> DRound(t[i])]
TTrunc(t) == [i \in 1..Len(t) |-> DTrunc(t[i])]
TMulQ(t)  == [i \in 1..Len(t) |-> DMulQ(t[i])]
TDivQ(t)  == [i \in 1..Len(t) |-> DDivQ(t[i])]
TRelu(t)  == [i \in 1..Len(t) |-> DRelu(t[i])]
TAdd(t, u) == [i \in 1..Len(t) |-> DAdd(t[i], u[i])]
TAllInteger(t) == \A i \in 1..Len(t) : IsInteger(t[i])

\* ------------------------------------------------------- the module tree
\* A module is [cls, path, bias, wlen, blen, kids]: its class, its dotted
\* name as a sequence, whether it owns a bias, the number of elements the
\* model keeps of its weight and of its bias, and its registered children
\* (name, module) in registration order.
Kid(name, mod) == [name |-> name, mod |-> mod]

Leaf(cls, path) ==
    [cls |-> cls, path |-> path, bias |-> FALSE, wlen |-> 0, blen |-> 0, kids |-> <<>>]

Conv2d(path, bias, wlen, blen) ==
    [cls |-> "Conv2d", path |-> path, bias |-> bias, wlen |-> wlen, blen |-> blen,
     kids |-> <<>>]

Linear(path, outs) ==
    [cls |-> "Linear", path |-> path, bias |-> TRUE, wlen |-> outs, blen |-> outs,
     kids |-> <<>>]

BatchNorm2d(path) ==
    [cls |-> "BatchNorm2d", path |-> path, bias |-> TRUE, wlen |-> 1, blen |-> 1,
     kids |-> <<>>]

Container(cls, path, kids) ==
    [cls |-> cls, path |-> path, bias |-> FALSE, wlen |-> 0, blen |-> 0, kids |-> kids]

\* the static table lc0_az_policy_map.make_map('index'): for each flattened
\* convolution output position (0-based) its canonical policy index, or -1
PolicyMapTable == <<1, -1, 0, 2>>
\* the number of canonical policy slots (1858 in the program)
NumPolicy == Cardinality({PolicyMapTable[i] : i \in 1..Len(PolicyMapTable)} \ {-1})

ConvBlock(path, inPlanes) ==
    Container("ConvBlock", path,
        << Kid("conv", Conv2d(path \o <<"conv">>, FALSE, inPlanes, 0)),
           Kid("bn", BatchNorm2d(path \o <<"bn">>)),
           Kid("relu", Leaf("ReLU", path \o <<"relu">>)) >>)

SqueezeExcitation(path) ==
    Container("SqueezeExcitation", path,
        << Kid("pool", Leaf("AdaptiveAvgPool2d", path \o <<"pool">>)),
           Kid("lin1", Linear(path \o <<"lin1">>, 1)),
           Kid("relu", Leaf("ReLU", path \o <<"relu">>)),
           Kid("lin2", Linear(path \o <<"lin2">>, 2)) >>)

ResidualBlock(path) ==
    LET lp == path \o <<"layers">>
    IN  Container("ResidualBlock", path,
        << Kid("layers", Container("Sequential", lp,
              << Kid("conv1", Conv2d(lp \o <<"conv1">>, FALSE, 1, 0)),
                 Kid("bn1", BatchNorm2d(lp \o <<"bn1">>)),
                 Kid("relu", Leaf("ReLU", lp \o <<"relu">>)),
                 Kid("conv2", Conv2d(lp \o <<"conv2">>, FALSE, 1, 0)),
                 Kid("bn2", BatchNorm2d(lp \o <<"bn2">>)),
                 Kid("se", SqueezeExcitation(lp \o <<"se">>)) >>)),
           Kid("relu2", Leaf("ReLU", path \o <<"relu2">>)) >>)

PolicyHead(path) ==
    Container("PolicyHead", path,
        << Kid("conv_block", ConvBlock(path \o <<"conv_block">>, 1)),
           Kid("conv", Conv2d(path \o <<"conv">>, TRUE,
                              Len(PolicyMapTable), Len(PolicyMapTable))) >>)

PolicyHeadClassical(path) ==
    LET lp == path \o <<"layers">>
    IN  Container("PolicyHeadClassical", path,
        << Kid("layers", Container("Sequential", lp,
              << Kid("0", ConvBlock(lp \o <<"0">>, 1)),
                 Kid("1", Leaf("Flatten", lp \o <<"1">>)),
                 Kid("2", Linear(lp \o <<"2">>, NumPolicy)) >>)) >>)

ValueHead(path) ==
    Container("ValueHead", path,
        << Kid("conv_block", ConvBlock(path \o <<"conv_block">>, 1)),
           Kid("flatten", Leaf("Flatten", path \o <<"flatten">>)),
           Kid("lin1", Linear(path \o <<"lin1">>, 1)),
           Kid("relu1", Leaf("ReLU", path \o <<"relu1">>)),
           Kid("lin2", Linear(path \o <<"lin2">>, 3)) >>)

\* the attribute assignments after super().__init__ replace the entries of
\* the same name and keep their order
ValueHeadClassical(path) ==
    Container("ValueHeadClassical", path,
        << Kid("conv_block", ConvBlock(path \o <<"conv_block">>, 1)),
           Kid("flatten", Leaf("Flatten", path \o <<"flatten">>)),
           Kid("lin1", Linear(path \o <<"lin1">>, 1)),
           Kid("relu1", Leaf("ReLU", path \o <<"relu1">>)),
           Kid("lin2", Linear(path \o <<"lin2">>, 1)),
           Kid("tanh", Leaf("Tanh", path \o <<"tanh">>)) >>)

BlockNames == <<"block1", "block2", "block3", "block4">>

\* Net.__init__: the module tree of a configuration
\* cfg = [residual_blocks, classical, classicalPolicy, device]
Net(cfg) ==
    Container("Net", <<>>,
        << Kid("conv_block", ConvBlock(<<"conv_block">>, 2)),
           Kid("residual_stack", Container("Sequential", <<"residual_stack">>,
              [i \in 1..cfg.residual_blocks |->
                  Kid(BlockNames[i], ResidualBlock(<<"residual_stack", BlockNames[i]>>))])),
           Kid("policy_head",
               IF cfg.classicalPolicy THEN PolicyHeadClassical(<<"policy_head">>)
               ELSE PolicyHead(<<"policy_head">>)),
           Kid("value_head",
               IF cfg.classical THEN ValueHeadClassical(<<"value_head">>)
               ELSE ValueHead(<<"value_head">>)) >>)

\* m.<name>
Attr(m, name) ==
    m.kids[CHOOSE i \in 1..Len(m.kids) : m.kids[i].name = name].mod

\* isinstance(m, nn.Sequential)
IsSequential(m) ==
    m.cls \in {"Sequential", "ConvBlock", "ValueHead", "ValueHeadClassical"}

\* ------------------------------------------------------- extract_weights
RECURSIVE extract_weights(_)
RECURSIVE ExtractEach(_)
\* `for layer in m: yield from extract_weights(layer)`
ExtractEach(kids) ==
    IF kids = <<>> THEN <<>>
    ELSE extract_weights(Head(kids).mod) \o ExtractEach(Tail(kids))

\* the parameter names extract_weights(m) yields, in order
extract_weights(m) ==
    IF m.cls = "Net" THEN
        extract_weights(Attr(m, "conv_block"))
        \o ExtractEach(Attr(m, "residual_stack").kids)
        \o extract_weights(Attr(m, "policy_head"))
        \o extract_weights(Attr(m, "value_head"))
    ELSE IF m.cls = "SqueezeExcitation" THEN
        extract_weights(Attr(m, "lin1")) \o extract_weights(Attr(m, "lin2"))
    ELSE IF m.cls = "PolicyHead" THEN
        extract_weights(Attr(m, "conv_block")) \o extract_weights(Attr(m, "conv"))
    ELSE IF m.cls = "ResidualBlock" THEN
        extract_weights(Attr(m, "layers"))
    ELSE IF IsSequential(m) THEN
        ExtractEach(m.kids)
    ELSE IF m.cls = "Conv2d" THEN
        <<m.path \o <<"weight">>>>
        \o (IF m.bias THEN <<m.path \o <<"bias">>>> ELSE <<>>)
    ELSE IF m.cls = "BatchNorm2d" THEN
        << m.path \o <<"weight">>, m.path \o <<"bias">>,
           m.path \o <<"running_mean">>, m.path \o <<"running_var">> >>
    ELSE IF m.cls = "Linear" THEN
        << m.path \o <<"weight">>, m.path \o <<"bias">> >>
    ELSE <<>>

\* ----------------------------------------------------------- named_modules
RECURSIVE named_modules(_)
RECURSIVE ModulesEach(_)
ModulesEach(kids) ==
    IF kids = <<>> THEN <<>>
    ELSE named_modules(Head(kids).mod) \o ModulesEach(Tail(kids))

\* self.named_modules() / self.modules(): the tree in pre-order
named_modules(m) == <<m>> \o ModulesEach(m.kids)

\* the parameters and buffers a module owns itself
OwnParams(m) ==
    IF m.cls \in {"Conv2d", "Linear"} THEN
        <<m.path \o <<"weight">>>>
        \o (IF m.bias THEN <<m.path \o <<"bias">>>> ELSE <<>>)
    ELSE IF m.cls = "BatchNorm2d" THEN
        << m.path \o <<"weight">>, m.path \o <<"bias">>,
           m.path \o <<"running_mean">>, m.path \o <<"running_var">> >>
    ELSE <<>>

RECURSIVE ParamsEach(_)
ParamsEach(mods) ==
    IF mods = <<>> THEN <<>> ELSE OwnParams(Head(mods)) \o ParamsEach(Tail(mods))

\* every parameter name of the network (the state dict's keys), in order
ParamNames(cfg) == ParamsEach(named_modules(Net(cfg)))
ParamKeys(cfg) == {ParamNames(cfg)[i] : i \in 1..Len(ParamNames(cfg))}

\* ------------------------------------------------------------------ state
VARIABLES
    cfg,                \* the constructor's arguments and the device the net was moved to
    QUANTIZE_NETWORKS,  \* the module-level toggle
    owner,              \* parameter / buffer name -> class of the module that owns it
    params,             \* parameter / buffer name -> tensor
    scale,              \* history: name -> the power of QUANTIZE_FACTOR the tensor carries
    weight_device,      \* where conv_block.conv.weight currently lives
    file,               \* the proto file at `path`: NoFile or the saved tensors
    counts,             \* history: how many store-changing calls, quantize and export calls ran
    last,               \* the most recent call and what it returned
    call                \* the most recent direct application of a helper function

vars == <<cfg, QUANTIZE_NETWORKS, owner, params, scale, weight_device, file, counts, last, call>>

NoFile == [weights |-> <<>>, scales |-> <<>>, saved |-> FALSE]
NoCall == [fn |-> "none"]

Configs ==
    [residual_blocks : 0..MaxBlocks, classical : BOOLEAN, classicalPolicy : BOOLEAN,
     device : {"cpu", "cuda"}]

\* a parameter's field name within its module
FieldOf(key) == key[Len(key)]

FirstConvWeight == <<"conv_block", "conv", "weight">>

\* A set of parameter values: w + (i-1) * wstep for element i of every
\* convolution / linear weight (w109 for input plane 109 of the first
\* convolution), b for every bias, and the four batch-norm statistics.
ProfileTensor(base, step, n) ==
    [i \in 1..n |-> DAdd(base, DMul(DInt(i - 1), step))]

\* own: name -> owning class; len: name -> number of elements
FillParams(own, len, prof) ==
    [key \in DOMAIN own |->
        LET f == FieldOf(key)
        IN  IF own[key] = "BatchNorm2d" THEN
                IF f = "weight" THEN <<prof.gamma>>
                ELSE IF f = "bias" THEN <<prof.beta>>
                ELSE IF f = "running_mean" THEN <<prof.mean>>
                ELSE <<prof.var>>
            ELSE IF key = FirstConvWeight THEN <<prof.w, prof.w109>>
            ELSE IF f = "weight" THEN ProfileTensor(prof.w, prof.wstep, len[key])
            ELSE ProfileTensor(prof.b, DZero, len[key])]

\* the registry the constructor builds: every parameter's owning class and
\* element count
RECURSIVE OwnerTable(_)
OwnerTable(mods) ==
    IF mods = <<>> THEN <<>>
    ELSE LET m == Head(mods)
             names == OwnParams(m)
         IN  [i \in 1..Len(names) |->
                 [name |-> names[i], cls |-> m.cls,
                  len |-> IF m.cls = "BatchNorm2d" THEN 1
                          ELSE IF FieldOf(names[i]) = "weight" THEN m.wlen
                          ELSE m.blen]]
             \o OwnerTable(Tail(mods))

TableRow(tab, key) == tab[CHOOSE i \in 1..Len(tab) : tab[i].name = key]
OwnerClasses(tab) == [key \in {tab[i].name : i \in 1..Len(tab)} |-> TableRow(tab, key).cls]
OwnerLengths(tab) == [key \in {tab[i].name : i \in 1..Len(tab)} |-> TableRow(tab, key).len]

\* the draws of init.xavier_normal_ the model considers
XavierDraws ==
    { [w |-> DMake(3, 2), wstep |-> DMake(1, 2), w109 |-> DMake(1, 1)] }

\* Net.reset_parameters (after the layers' own defaults): random weights,
\* zero biases, batch-norm gamma 1, beta 0, running mean 0, running variance 1
reset_parameters(own, len, draw) ==
    FillParams(own, len,
        [w |-> draw.w, wstep |-> draw.wstep, w109 |-> draw.w109, b |-> DZero,
         gamma |-> DInt(1), beta |-> DZero, mean |-> DZero, var |-> DInt(1)])

\* the state dicts torch.load may return (trained, unquantized values)
Checkpoints ==
    { [w |-> DMake(-5, 3), wstep |-> DMake(3, 3), w109 |-> DMake(7, 2),
       b |-> DMake(-3, 4), gamma |-> DMake(3, 2), beta |-> DMake(1, 1),
       mean |-> DMake(1, 2), var |-> DInt(4)] }

\* the input planes the model feeds: <<the other planes, plane 109>>
Inputs == { <<DMake(1, 1), DMake(1, 2)>>, <<DMake(-7, 3), DZero>> }

Init ==
    /\ cfg \in Configs
    /\ QUANTIZE_NETWORKS \in BOOLEAN
    /\ \E tab \in {OwnerTable(named_modules(Net(cfg)))} :
          /\ owner = OwnerClasses(tab)
          /\ \E draw \in XavierDraws, len \in {OwnerLengths(tab)} :
                params = reset_parameters(owner, len, draw)
    /\ scale = [key \in DOMAIN owner |-> 0]
    /\ weight_device = cfg.device
    /\ file = NoFile
    /\ counts = [calls |-> 0, quantize |-> 0, export |-> 0]
    /\ last = [op |-> "__init__"]
    /\ call = NoCall

\* ---------------------------------------------------- quantize_parameters
\* how many factors of QUANTIZE_FACTOR quantize_parameters applies to field
\* f of a module of class cls
QuantizePower(cls, f) ==
    IF cls \in {"Conv2d", "Linear"} THEN (IF f = "weight" THEN 1 ELSE 2)
    ELSE IF f = "running_var" THEN 2 ELSE 1

\* a quantization that leaves an already-integer tensor alone
QuantizeTensorOnce(t, power) ==
    IF TAllInteger(t) THEN t
    ELSE IF power = 1 THEN TRound(TMulQ(t)) ELSE TRound(TMulQ(TMulQ(t)))

\* torch.round(t * QUANTIZE_FACTOR ** power)
QuantizeTensor(t, power) ==
    IF power = 1 THEN TRound(TMulQ(t)) ELSE TRound(TMulQ(TMulQ(t)))

quantize_parameters ==
    /\ counts.calls < MaxCalls
    /\ params' = [key \in DOMAIN params |->
                    QuantizeTensor(params[key], QuantizePower(owner[key], FieldOf(key)))]
    /\ scale' = [key \in DOMAIN params |->
                    scale[key] + QuantizePower(owner[key], FieldOf(key))]
    /\ counts' = [counts EXCEPT !.calls = @ + 1, !.quantize = @ + 1]
    /\ last' = [op |-> "quantize_parameters", before |-> params, scale_before |-> scale]
    /\ UNCHANGED <<cfg, QUANTIZE_NETWORKS, owner, weight_device, file, call>>

\* -------------------------------------------------------- from_checkpoint
from_checkpoint ==
    /\ counts.calls < MaxCalls
    /\ \E ck \in Checkpoints :
          params' = FillParams(owner, [key \in DOMAIN params |-> Len(params[key])], ck)
    /\ scale' = [key \in DOMAIN params |-> 0]
    /\ counts' = [counts EXCEPT !.calls = @ + 1]
    /\ last' = [op |-> "from_checkpoint"]
    /\ UNCHANGED <<cfg, QUANTIZE_NETWORKS, owner, weight_device, file, call>>

\* ------------------------------------------------- export_proto / import
\* proto.fill_net + proto.save_proto, then proto.parse_proto +
\* proto.get_weights: the external format returns the tensors it was given
ProtoSave(weights, scales) == [weights |-> weights, scales |-> scales, saved |-> TRUE]
ProtoLoad(f) == f.weights

\* `t[:, 109, :, :] /= 99` and `t[:, 109, :, :] *= 99` on the first
\* convolution's weight <<other planes, plane 109>>
DivideLegacyChannel(t) == <<t[1], FDivLegacy(t[2])>>
\* an import that forgets the multiplication
KeepLegacyChannel(t) == t
MultiplyLegacyChannel(t) == <<t[1], FMulLegacy(t[2])>>

\* Net.export_proto: numpy views of the extracted tensors, plane 109 of the
\* first one divided in place, then saved.  On the CPU the view shares the
\* parameter's memory, on another device .cpu() copies.
\* [w.detach().cpu().numpy() for w in extract_weights(self)] with plane 109
\* of the first tensor divided
ExportedWeights(names, ps) ==
    [i \in 1..Len(names) |->
        IF i = 1 THEN DivideLegacyChannel(ps[names[i]]) ELSE ps[names[i]]]

ExportTo(names) ==
    /\ file' = ProtoSave(ExportedWeights(names, params),
                         [i \in 1..Len(names) |-> scale[names[i]]])
    /\ params' = IF weight_device = "cpu"
                 THEN [params EXCEPT ![names[1]] = DivideLegacyChannel(@)]
                 ELSE params

export_proto ==
    /\ counts.calls < MaxCalls
    /\ \E names \in {extract_weights(Net(cfg))} : ExportTo(names)
    /\ counts' = [counts EXCEPT !.calls = @ + 1, !.export = @ + 1]
    /\ last' = [op |-> "export_proto", before |-> params]
    /\ UNCHANGED <<cfg, QUANTIZE_NETWORKS, owner, scale, weight_device, call>>

Min(a, b) == IF a < b THEN a ELSE b

\* old with the entries zip(names, weights) pairs replaced
Zipped(names, weights, old) ==
    [key \in DOMAIN old |->
        IF \E i \in 1..Min(Len(names), Len(weights)) : names[i] = key
        THEN weights[CHOOSE i \in 1..Min(Len(names), Len(weights)) : names[i] = key]
        ELSE old[key]]

ImportFrom(names, weights) ==
    /\ params' = [Zipped(names, weights, params)
                    EXCEPT ![FirstConvWeight] = MultiplyLegacyChannel(@)]
    /\ scale' = Zipped(names, file.scales, scale)

\* the body the three import functions share: zip(extract_weights(self),
\* weights) replaces each tensor, then plane 109 is multiplied back
ImportWeights(opname) ==
    /\ counts.calls < MaxCalls
    /\ file.saved
    /\ \E names \in {extract_weights(Net(cfg))}, weights \in {ProtoLoad(file)} :
          ImportFrom(names, weights)
    /\ weight_device' = "cpu"
    /\ last' = [op |-> opname, before |-> params,
                 prev |-> IF last.op = "export_proto" THEN last ELSE [op |-> last.op]]
    /\ counts' = [counts EXCEPT !.calls = @ + 1]
    /\ UNCHANGED <<cfg, QUANTIZE_NETWORKS, owner, file, call>>

import_proto == ImportWeights("import_proto")
import_proto_classical == ImportWeights("import_proto_classical")
import_proto_classical_policy == ImportWeights("import_proto_classical_policy")

\* ------------------------------------------------ fixed-point helpers
\* floor(quantize_factor * 0.5) + trunc(x / 4)
near_zero_sigmoid_approx(x) ==
    DAdd(DInt(QUANTIZE_FACTOR \div 2), DTrunc(DMake(x[1], x[2] + 2)))

\* the value `middle + upper` of cursed_sigmoid's piecewise scaffolding,
\* which the function computes and does not return
PiecewiseSigmoid(x) ==
    LET bound  == DInt(SIGMOID_PIECEWISE_BOUND * QUANTIZE_FACTOR)
        upper  == IF ~DLeq(bound, x) THEN DZero              \* x < bound
                  ELSE IF ~DLeq(x, bound) THEN DInt(QUANTIZE_FACTOR)  \* x > bound
                  ELSE x
        middle == IF ~DLeq(DNeg(bound), x) \/ ~DLeq(x, bound) THEN DZero ELSE x
    IN  DAdd(near_zero_sigmoid_approx(middle), upper)

\* torch.sigmoid at an integer argument, to 8 fractional bits; like
\* float32's it reaches 1 (and 0) for arguments of large magnitude
SigmoidTable == <<128, 187, 225, 244, 251, 254, 255>>
Sigmoid(r) ==
    IF ~IsInteger(r) THEN Inexact
    ELSE IF r[1] >= Len(SigmoidTable) THEN DInt(1)
    ELSE IF r[1] >= 0 THEN DMake(SigmoidTable[r[1] + 1], 8)
    ELSE IF -r[1] >= Len(SigmoidTable) THEN DZero
    ELSE DMake(256 - SigmoidTable[-r[1] + 1], 8)

\* cursed_sigmoid: (x / QUANTIZE_FACTOR).round().sigmoid() * QUANTIZE_FACTOR
cursed_sigmoid(x) == DMulQ(Sigmoid(DRound(DDivQ(x))))

\* the variant the source keeps in a comment:
\* coeff = torch.round(gamma / torch.sqrt(var_x))
cursed_batchnorm_unscaled(x, gamma, beta, e_x, var_x) ==
    LET coeff == DRound(DDivPow2(gamma, DSqrt(var_x)))
        first_term == DTrunc(DDivQ(DMul(DSub(x, e_x), coeff)))
    IN  DAdd(first_term, beta)

\* cursed_batchnorm on one element of a channel with the given statistics
cursed_batchnorm(x, gamma, beta, e_x, var_x) ==
    LET coeff == DDivPow2(DRound(DMulQ(gamma)), DSqrt(var_x))
        first_term == DTrunc(DDivQ(DMul(DSub(x, e_x), coeff)))
    IN  DAdd(first_term, beta)

\* nn.BatchNorm2d in eval mode: (x - mean) / sqrt(var + eps) * gamma + beta
\* with eps = 1e-5, a float32 result the model does not track
BatchNorm2d_forward(x, gamma, beta, e_x, var_x) == Inexact

\* torch.trunc(x / QUANTIZE_FACTOR), the step after most layers
TruncRescale(t) == TTrunc(TDivQ(t))
\* torch.round(x / QUANTIZE_FACTOR), the step PolicyHead.forward applies
RoundRescale(t) == TRound(TDivQ(t))

\* ------------------------------------------------- create_gather_tensor
Range(f) == {f[i] : i \in DOMAIN f}
SetMax(S) == CHOOSE x \in S : \A y \in S : y <= x
SetMin(S) == CHOOSE x \in S : \A y \in S : x <= y

RECURSIVE SortedSeq(_)
SortedSeq(S) ==
    IF S = {} THEN <<>> ELSE <<SetMin(S)>> \o SortedSeq(S \ {SetMin(S)})

\* {az: lc0 for lc0, az in dict(enumerate(map)).items()}: a later position
\* overwrites an earlier one with the same value (positions are 0-based)
InvertMap(map) ==
    [az \in Range(map) |-> SetMax({i \in 1..Len(map) : map[i] = az}) - 1]

\* the list without its `if az != -1` filter
GatherIndicesUnfiltered(inv, keys) == [j \in 1..Len(keys) |-> inv[keys[j]]]

\* [lc0 for az, lc0 in sorted(inverted.items()) if az != -1]
GatherIndices(inv, keys) ==
    LET kept == SelectSeq(keys, LAMBDA az : az # -1)
    IN  [j \in 1..Len(kept) |-> inv[kept[j]]]

create_gather_tensor(map) == GatherIndices(InvertMap(map), SortedSeq(Range(map)))

\* x.gather(dim=1, index=policy_map) on one batch row
Gather(x, index) == [j \in 1..Len(index) |-> x[index[j] + 1]]

\* ----------------------------------------------------------- forward pass
\* The pass threads S = [x, s, tr]: the tensor, the power of
\* QUANTIZE_FACTOR it carries (history) and the steps taken so far.  A step
\* records the module whose code ran it, the operation, its input and
\* output, the output's power and the powers of the two operands of every
\* addition it performs.

Emit(S, stage, op, out, s, adds) ==
    [x |-> out, s |-> s,
     tr |-> Append(S.tr, [stage |-> stage, op |-> op, in |-> S.x, out |-> out,
                          s |-> s, adds |-> adds])]

\* the end of a module's forward: its result is handed to the caller
Return(S, stage) == With(S, LAMBDA v : Emit(v, stage, "return", v.x, v.s, <<>>))

\* the first convolution: no bias, one output, summed over the input planes
ConvPlanes(S, path) ==
    With(S, LAMBDA v :
        Emit(v, path, "Conv2d",
             <<SeqSum([j \in 1..Len(v.x) |-> DMul(v.x[j], params[path \o <<"weight">>][j])])>>,
             v.s + scale[path \o <<"weight">>], <<>>))

\* any other convolution or linear layer: one input, one output per weight
Affine(S, path, cls, hasBias) ==
    With(S, LAMBDA v :
        IF hasBias
        THEN Emit(v, path, cls,
                  [i \in 1..Len(params[path \o <<"weight">>]) |->
                      DAdd(DMul(v.x[1], params[path \o <<"weight">>][i]),
                           params[path \o <<"bias">>][i])],
                  v.s + scale[path \o <<"weight">>],
                  << <<v.s + scale[path \o <<"weight">>], scale[path \o <<"bias">>]>> >>)
        ELSE Emit(v, path, cls,
                  [i \in 1..Len(params[path \o <<"weight">>]) |->
                      DMul(v.x[1], params[path \o <<"weight">>][i])],
                  v.s + scale[path \o <<"weight">>], <<>>))

\* the truncate-divide applied whatever the toggle says
RescaleAlways(S, stage, q) ==
    With(S, LAMBDA v : Emit(v, stage, "trunc_div_Q", TruncRescale(v.x), v.s - 1, <<>>))

\* x = torch.trunc(x / QUANTIZE_FACTOR) under `if QUANTIZE_NETWORKS:`
Rescale(S, stage, q) ==
    IF q THEN With(S, LAMBDA v :
                 Emit(v, stage, "trunc_div_Q", TruncRescale(v.x), v.s - 1, <<>>))
    ELSE S

Relu(S, path) == With(S, LAMBDA v : Emit(v, path, "ReLU", TRelu(v.x), v.s, <<>>))

\* the power of QUANTIZE_FACTOR of cursed_batchnorm's coeff
CoeffScale(bn) ==
    scale[bn \o <<"weight">>] + 1 - (scale[bn \o <<"running_var">>] \div 2)

\* the batch-norm step of ConvBlock.forward and ResidualBlock.forward
BatchNormStep(S, stage, bn, q) ==
    With(S, LAMBDA v :
        IF q
        THEN Emit(v, stage, "cursed_batchnorm",
                  [i \in 1..Len(v.x) |->
                      cursed_batchnorm(v.x[i],
                          params[bn \o <<"weight">>][1], params[bn \o <<"bias">>][1],
                          params[bn \o <<"running_mean">>][1],
                          params[bn \o <<"running_var">>][1])],
                  v.s + CoeffScale(bn) - 1,
                  << <<v.s, scale[bn \o <<"running_mean">>]>>,
                     <<v.s + CoeffScale(bn) - 1, scale[bn \o <<"bias">>]>> >>)
        ELSE Emit(v, bn, "BatchNorm2d",
                  [i \in 1..Len(v.x) |->
                      BatchNorm2d_forward(v.x[i],
                          params[bn \o <<"weight">>][1], params[bn \o <<"bias">>][1],
                          params[bn \o <<"running_mean">>][1],
                          params[bn \o <<"running_var">>][1])],
                  v.s, <<>>))

\* ConvBlock.forward
ConvBlock_conv(S, path, first) ==
    IF first THEN ConvPlanes(S, path \o <<"conv">>)
    ELSE Affine(S, path \o <<"conv">>, "Conv2d", FALSE)

ConvBlock_forward(S, path, first, q) ==
    Return(
      Relu(
        BatchNormStep(
          Rescale(ConvBlock_conv(S, path, first), path, q),
          path, path \o <<"bn">>, q),
        path \o <<"relu">>),
      path)

\* SqueezeExcitation.forward
SE_pool(S, path) ==
    With(S, LAMBDA v : Emit(v, path \o <<"pool">>, "AdaptiveAvgPool2d", v.x, v.s, <<>>))

SE_trunc(S, path, q) ==
    IF q THEN With(S, LAMBDA v : Emit(v, path, "trunc", TTrunc(v.x), v.s, <<>>))
    ELSE S

SE_lin(S, path, name, q) ==
    Rescale(Affine(S, path \o <<name>>, "Linear", TRUE), path, q)

\* scale, shift = x.chunk(2, dim=1)
SE_sigmoid(S, path, q) ==
    With(S, LAMBDA v :
        IF q THEN Emit([v EXCEPT !.x = <<v.x[1]>>], path, "cursed_sigmoid",
                       <<cursed_sigmoid(v.x[1])>>, 1, <<>>)
        ELSE Emit([v EXCEPT !.x = <<v.x[1]>>], path, "sigmoid", <<Inexact>>, v.s, <<>>))

\* the gate times x_in: torch.trunc((gate * x_in) / QUANTIZE_FACTOR) or gate * x_in
SE_scale(G, xin, sin, path, q) ==
    With(G, LAMBDA g :
        IF q THEN Emit(g, path, "gate_trunc_div_Q",
                       <<DTrunc(DDivQ(DMul(g.x[1], xin[1])))>>, g.s + sin - 1, <<>>)
        ELSE Emit(g, path, "gate_mul", <<DMul(g.x[1], xin[1])>>, g.s + sin, <<>>))

SE_shift(M, shift, sshift, path) ==
    With(M, LAMBDA m :
        Emit(m, path, "shift_add", <<DAdd(m.x[1], shift)>>, m.s, << <<m.s, sshift>> >>))

\* everything after lin2: A is lin2's (rescaled) result, Sin the block's input
SE_gate(A, Sin, path, q) ==
    With(A, LAMBDA a :
        SE_shift(SE_scale(SE_sigmoid(a, path, q), Sin.x, Sin.s, path, q),
                 a.x[2], a.s, path))

SE_body(Sin, path, q) ==
    SE_gate(
      SE_lin(Relu(SE_lin(SE_trunc(SE_pool(Sin, path), path, q), path, "lin1", q),
                  path \o <<"relu">>),
             path, "lin2", q),
      Sin, path, q)

SqueezeExcitation_forward(S, path, q) ==
    With(S, LAMBDA v : Return(SE_body(v, path, q), path))

\* ResidualBlock.forward
Residual_half(S, path, conv, bn, q) ==
    BatchNormStep(
      Rescale(Affine(S, path \o <<"layers", conv>>, "Conv2d", FALSE), path, q),
      path, path \o <<"layers", bn>>, q)

Residual_add(S, xin, sin, path) ==
    With(S, LAMBDA v :
        Emit(v, path, "residual_add", TAdd(v.x, xin), v.s, << <<v.s, sin>> >>))

Residual_body(Sin, path, q) ==
    Relu(
      Residual_add(
        SqueezeExcitation_forward(
          Residual_half(
            Relu(Residual_half(Sin, path, "conv1", "bn1", q),
                 path \o <<"layers", "relu">>),
            path, "conv2", "bn2", q),
          path \o <<"layers", "se">>, q),
        Sin.x, Sin.s, path),
      path \o <<"relu2">>)

ResidualBlock_forward(S, path, q) ==
    With(S, LAMBDA v : Return(Residual_body(v, path, q), path))

\* self.residual_stack(x): blocks i .. n in order
RECURSIVE ResidualStack(_, _, _, _)
ResidualStack(S, i, n, q) ==
    IF i > n THEN S
    ELSE ResidualStack(
           ResidualBlock_forward(S, <<"residual_stack", BlockNames[i]>>, q),
           i + 1, n, q)

\* PolicyHead.forward
PolicyHead_rescale(S, path, q) ==
    IF q THEN With(S, LAMBDA v :
                 Emit(v, path, "round_div_Q", RoundRescale(v.x), v.s - 1, <<>>))
    ELSE S

PolicyHead_gather(S, path) ==
    With(S, LAMBDA v :
        Emit(v, path, "gather", Gather(v.x, create_gather_tensor(PolicyMapTable)),
             v.s, <<>>))

\* x.contiguous().view(x.size(0), -1): the same elements, flattened
View(S, path, op) == With(S, LAMBDA v : Emit(v, path, op, v.x, v.s, <<>>))

PolicyHead_forward(S, path, q) ==
    Return(
      PolicyHead_gather(
        View(
          PolicyHead_rescale(
            Affine(ConvBlock_forward(S, path \o <<"conv_block">>, FALSE, q),
                   path \o <<"conv">>, "Conv2d", TRUE),
            path, q),
          path, "view"),
        path),
      path)

\* PolicyHeadClassical.forward: self.layers(x)
PolicyHeadClassical_forward(S, path, q) ==
    Return(
      Affine(
        View(ConvBlock_forward(S, path \o <<"layers", "0">>, FALSE, q),
             path \o <<"layers", "1">>, "Flatten"),
        path \o <<"layers", "2">>, "Linear", TRUE),
      path)

\* ValueHead: nn.Sequential.forward over conv_block, flatten, lin1, relu1, lin2
ValueHead_forward(S, path, q) ==
    Return(
      Affine(
        Relu(
          Affine(
            View(ConvBlock_forward(S, path \o <<"conv_block">>, FALSE, q),
                 path \o <<"flatten">>, "Flatten"),
            path \o <<"lin1">>, "Linear", TRUE),
          path \o <<"relu1">>),
        path \o <<"lin2">>, "Linear", TRUE),
      path)

\* ValueHeadClassical.forward
ValueHeadClassical_lin(S, path, name, q) ==
    Rescale(Affine(S, path \o <<name>>, "Linear", TRUE), path, q)

ValueHeadClassical_forward(S, path, q) ==
    Return(
      ValueHeadClassical_lin(
        Relu(
          ValueHeadClassical_lin(
            View(ConvBlock_forward(S, path \o <<"conv_block">>, FALSE, q),
                 path \o <<"flatten">>, "Flatten"),
            path, "lin1", q),
          path \o <<"relu1">>),
        path, "lin2", q),
      path)

\* Net.forward
Net_quantize_input(x, q) ==
    IF q THEN Emit([x |-> x, s |-> 0, tr |-> <<>>], <<>>, "round_mul_Q",
                   TRound(TMulQ(x)), 1, <<>>)
    ELSE [x |-> x, s |-> 0, tr |-> <<>>]

Net_dequantize(S, q) ==
    IF q THEN With(S, LAMBDA v : Emit(v, <<>>, "div_Q", TDivQ(v.x), v.s - 1, <<>>))
    ELSE S

Net_policy(T, q) ==
    Net_dequantize(
      IF cfg.classicalPolicy THEN PolicyHeadClassical_forward(T, <<"policy_head">>, q)
      ELSE PolicyHead_forward(T, <<"policy_head">>, q),
      q)

Net_value(T, q) ==
    Net_dequantize(
      IF cfg.classical THEN ValueHeadClassical_forward(T, <<"value_head">>, q)
      ELSE ValueHead_forward(T, <<"value_head">>, q),
      q)

\* the trunk's result feeds both heads; the value head's steps follow the
\* policy head's in the record
Net_heads(T, q) ==
    With(T, LAMBDA t :
      With(Net_policy(t, q), LAMBDA P :
        With(Net_value([t EXCEPT !.tr = P.tr], q), LAMBDA V :
          [policy |-> P.x, value |-> V.x, trace |-> V.tr])))

Net_trunk(x, q) ==
    ResidualStack(
      ConvBlock_forward(Net_quantize_input(x, q), <<"conv_block">>, TRUE, q),
      1, cfg.residual_blocks, q)

Net_forward(x, q) == Net_heads(Net_trunk(x, q), q)

ForwardResult(x, R) ==
    [op |-> "forward", input |-> x, policy |-> R.policy, value |-> R.value,
     trace |-> R.trace]

forward ==
    /\ \E x \in Inputs : last' = ForwardResult(x, Net_forward(x, QUANTIZE_NETWORKS))
    /\ UNCHANGED <<cfg, QUANTIZE_NETWORKS, owner, params, scale, weight_device, file,
                   counts, call>>

Next ==
    \/ quantize_parameters
    \/ from_checkpoint
    \/ export_proto
    \/ import_proto
    \/ import_proto_classical
    \/ import_proto_classical_policy
    \/ forward

Spec == Init /\ [][Next]_vars

\* the parameter store alone: no forward pass
NextStore ==
    \/ quantize_parameters
    \/ from_checkpoint
    \/ export_proto
    \/ import_proto
    \/ import_proto_classical
    \/ import_proto_classical_policy

SpecStore == Init /\ [][NextStore]_vars

\* inference on a model that is loaded and quantized in memory
NextForward ==
    \/ quantize_parameters
    \/ from_checkpoint
    \/ forward

SpecForward == Init /\ [][NextForward]_vars

\* ------------------------------------------- the helpers, called directly
\* the module is imported and no network is in use
Idle ==
    /\ cfg = [residual_blocks |-> 0, classical |-> FALSE, classicalPolicy |-> FALSE,
              device |-> "cpu"]
    /\ QUANTIZE_NETWORKS = TRUE
    /\ owner = <<>>
    /\ params = <<>>
    /\ scale = <<>>
    /\ weight_device = "cpu"
    /\ file = NoFile
    /\ counts = [calls |-> 0, quantize |-> 0, export |-> 0]
    /\ last = [op |-> "none"]

NetUnchanged ==
    UNCHANGED <<cfg, QUANTIZE_NETWORKS, owner, params, scale, weight_device, file,
                counts, last>>

\* quantized gate arguments: the integers around zero and two far out
GateInputs ==
    {DInt(n) : n \in -(MaxGate * QUANTIZE_FACTOR)..(MaxGate * QUANTIZE_FACTOR)}
        \cup {DInt(2 ^ 22), DInt(-(2 ^ 22))}

InitSigmoid ==
    /\ Idle
    /\ \E x \in GateInputs, y \in GateInputs :
          call = [fn |-> "cursed_sigmoid", done |-> FALSE, x |-> x, y |-> y]

\* cursed_sigmoid applied to x and, separately, to y
call_cursed_sigmoid ==
    /\ call.fn = "cursed_sigmoid" /\ ~call.done
    /\ call' = [fn |-> "cursed_sigmoid", done |-> TRUE, x |-> call.x, y |-> call.y,
                fx |-> cursed_sigmoid(call.x), fy |-> cursed_sigmoid(call.y)]
    /\ NetUnchanged

NextSigmoid == call_cursed_sigmoid
SpecSigmoid == InitSigmoid /\ [][NextSigmoid]_vars

\* policy maps: every position holds a canonical index or -1
PolicyMaps == UNION {[1..n -> -1..(MaxMapLen - 1)] : n \in 0..MaxMapLen}

InitGather ==
    /\ Idle
    /\ \E map \in PolicyMaps :
          call = [fn |-> "create_gather_tensor", done |-> FALSE, map |-> map]

\* create_gather_tensor run twice on the same map
call_create_gather_tensor ==
    /\ call.fn = "create_gather_tensor" /\ ~call.done
    /\ call' = [fn |-> "create_gather_tensor", done |-> TRUE, map |-> call.map,
                index |-> create_gather_tensor(call.map),
                again |-> create_gather_tensor(call.map)]
    /\ NetUnchanged

NextGather == call_create_gather_tensor
SpecGather == InitGather /\ [][NextGather]_vars

\* quantized activations and the statistics of one batch-norm channel
Activations == {DInt(n) : n \in -MaxActivation..MaxActivation}
Gammas == {DInt(1), DInt(3), DInt(-2), DMake(3, 2)}
Betas == {DZero, DInt(2), DInt(-3)}
Means == {DZero, DInt(1), DInt(-2)}
Variances == {DInt(1), DInt(4), DInt(16)}

InitBatchNorm ==
    /\ Idle
    /\ \E x \in Activations, gamma \in Gammas, beta \in Betas, e_x \in Means,
          var_x \in Variances :
          call = [fn |-> "cursed_batchnorm", done |-> FALSE, x |-> x, gamma |-> gamma,
                  beta |-> beta, e_x |-> e_x, var_x |-> var_x]

call_cursed_batchnorm ==
    /\ call.fn = "cursed_batchnorm" /\ ~call.done
    /\ call' = [call EXCEPT !.done = TRUE] @@
                [result |-> cursed_batchnorm(call.x, call.gamma, call.beta, call.e_x,
                                             call.var_x)]
    /\ NetUnchanged

NextBatchNorm == call_cursed_batchnorm
SpecBatchNorm == InitBatchNorm /\ [][NextBatchNorm]_vars

\* ============================================================ properties
Steps == IF last.op = "forward" THEN last.trace ELSE <<>>

\* the steps of Steps taken by the module at `path` or by one below it
IsUnder(path, stage) ==
    Len(stage) >= Len(path) /\ SubSeq(stage, 1, Len(path)) = path
StepsUnder(path) == SelectSeq(Steps, LAMBDA r : IsUnder(path, r.stage))
OpsOf(steps) == [i \in 1..Len(steps) |-> steps[i].op]

\* the steps that divide a convolution's or linear layer's output by Q
LayerDivides == {"trunc_div_Q", "round_div_Q"}

\* C1: with quantization enabled, every divide-by-Q step after a convolution
\* or linear layer of the forward pass, PolicyHead's included, returns its
\* input divided by Q and truncated toward zero.
C1_EveryLayerDivideTruncates ==
    QUANTIZE_NETWORKS =>
        \A i \in 1..Len(Steps) :
            Steps[i].op \in LayerDivides =>
                Steps[i].out = TTrunc(TDivQ(Steps[i].in))

\* the steps a head at `path` takes itself, after its ConvBlock returned
HeadSteps(path) ==
    SelectSeq(Steps, LAMBDA r : IsUnder(path, r.stage)
                                /\ ~IsUnder(path \o <<"conv_block">>, r.stage))

\* C2: with quantization enabled the value head of either width runs
\* ConvBlock, flatten, linear, truncate-divide by Q, ReLU, linear,
\* truncate-divide by Q and returns, with no final activation.
C2_ValueHeadRescalesTwice ==
    (QUANTIZE_NETWORKS /\ last.op = "forward") =>
        /\ StepsUnder(<<"value_head", "conv_block">>) # <<>>
        /\ OpsOf(HeadSteps(<<"value_head">>)) =
              <<"Flatten", "Linear", "trunc_div_Q", "ReLU", "Linear", "trunc_div_Q",
                "return">>

\* the steps only the quantized pass takes
QuantOnlyOps == {"round_mul_Q", "div_Q", "trunc_div_Q", "round_div_Q", "trunc"}
\* the quantized steps that stand in for a floating-point one
CursedOps == {"cursed_batchnorm", "cursed_sigmoid", "gate_trunc_div_Q"}

PlainOp(op) ==
    IF op = "cursed_batchnorm" THEN "BatchNorm2d"
    ELSE IF op = "cursed_sigmoid" THEN "sigmoid"
    ELSE IF op = "gate_trunc_div_Q" THEN "gate_mul"
    ELSE op

\* the layers of a quantized pass, its quantization steps left out and its
\* fixed-point batch-norm and gate replaced by the library ones
PlainComposition(trace) ==
    LET kept == SelectSeq(trace, LAMBDA r : r.op \notin QuantOnlyOps)
    IN  [i \in 1..Len(kept) |-> PlainOp(kept[i].op)]

ReturnOf(path) ==
    LET k == CHOOSE i \in 1..Len(Steps) : Steps[i].op = "return" /\ Steps[i].stage = path
    IN  Steps[k].out

\* C3: with QUANTIZE_NETWORKS off a forward pass takes no round, truncate,
\* multiply-by-Q or divide-by-Q step and no fixed-point batch-norm or gate:
\* it starts from the input as given, runs exactly the layers of the
\* quantized pass with library batch-norm and sigmoid, and returns the
\* heads' results as they are.
C3_ToggleOffIsPlainComposition ==
    (~QUANTIZE_NETWORKS /\ last.op = "forward") =>
        /\ \A i \in 1..Len(Steps) : Steps[i].op \notin QuantOnlyOps \cup CursedOps
        /\ Steps[1].in = last.input
        /\ OpsOf(Steps) = PlainComposition(Net_forward(last.input, TRUE).trace)
        /\ last.policy = ReturnOf(<<"policy_head">>)
        /\ last.value = ReturnOf(<<"value_head">>)

C3_Witness ==
    /\ ~QUANTIZE_NETWORKS
    /\ last.op = "forward"
    /\ cfg.residual_blocks >= 1
    /\ \E i \in 1..Len(Steps) : Steps[i].op = "sigmoid"
    /\ \E i \in 1..Len(Steps) : Steps[i].op = "BatchNorm2d"
    /\ \E i \in 1..Len(Steps) : Steps[i].op = "gather"

\* the power of Q one quantize_parameters call gives the parameter `key`
OncePower(key) == QuantizePower(owner[key], FieldOf(key))

\* the most recent call was quantize_parameters on a model whose every
\* parameter had been quantized exactly once
SecondQuantizeCall ==
    /\ last.op = "quantize_parameters"
    /\ \A key \in DOMAIN params : last.scale_before[key] = OncePower(key)

\* C4: a second quantize_parameters call scales every already-quantized
\* parameter again, by Q (weights, gamma, beta, running mean) or by Q^2
\* (biases, running variance), so each carries twice the intended power of
\* Q and every non-zero one has changed (the call ran: nothing refused it).
C4_SecondCallRescalesAgain ==
    SecondQuantizeCall =>
        \A key \in DOMAIN params :
            /\ scale[key] = 2 * OncePower(key)
            /\ \A i \in 1..Len(params[key]) :
                  LET b == last.before[key][i]
                      want == DRound(DMul(b, DInt(QUANTIZE_FACTOR ^ OncePower(key))))
                  IN  IsExact(want) =>
                          /\ params[key][i] = want
                          /\ IsInteger(b) => want[1] = b[1] * QUANTIZE_FACTOR ^ OncePower(key)
                          /\ b[1] # 0 => params[key][i] # b

C4_Witness ==
    /\ SecondQuantizeCall
    /\ \E key \in DOMAIN params :
          /\ owner[key] = "Linear" /\ FieldOf(key) = "bias"
          /\ IsInteger(last.before[key][1]) /\ last.before[key][1][1] # 0
          /\ params[key][1] = DInt(last.before[key][1][1] * QUANTIZE_FACTOR ^ 2)
    /\ \E key \in DOMAIN params :
          /\ owner[key] = "Conv2d" /\ FieldOf(key) = "weight"
          /\ IsInteger(last.before[key][1]) /\ last.before[key][1][1] # 0
          /\ params[key][1] = DInt(last.before[key][1][1] * QUANTIZE_FACTOR)

\* the most recent call was import_proto, directly after an export_proto
\* of the same model
RoundTrip == last.op = "import_proto" /\ last.prev.op = "export_proto"

\* the parameters as they were before the export
BeforeExport == last.prev.before

\* |a - b| <= |b| / 2^(FloatMantissa - 2): a is b up to the float32 rounding
\* of two operations
CloseTo(a, b) ==
    /\ IsExact(a) /\ IsExact(b)
    /\ LET e == IF a[2] > b[2] THEN a[2] ELSE b[2]
       IN  /\ MulFits(a[1], 2 ^ (e - a[2]))
           /\ MulFits(b[1], 2 ^ (e - b[2]))
           /\ Abs(a[1] * 2 ^ (e - a[2]) - b[1] * 2 ^ (e - b[2]))
                 <= Abs(b[1] * 2 ^ (e - b[2])) \div 2 ^ (FloatMantissa - 2)

\* C5 as stated: export_proto followed by import_proto leaves the model with
\* the weight tensors it had before the export, channel 109 included.
C5_RoundTripRestoresEveryChannel == RoundTrip => params = BeforeExport

\* C5 amended: export_proto followed by import_proto restores every tensor
\* element other than input plane 109 of the first convolution exactly;
\* plane 109 comes back only up to the float32 rounding of the division
\* and the multiplication by 99.
C5_RoundTripUpToFloatRounding ==
    RoundTrip =>
        \A key \in DOMAIN params :
            \A i \in 1..Len(params[key]) :
                IF key = FirstConvWeight /\ i = 2
                THEN IsExact(BeforeExport[key][i]) =>
                         CloseTo(params[key][i], BeforeExport[key][i])
                ELSE params[key][i] = BeforeExport[key][i]

C5_Witness ==
    /\ RoundTrip
    /\ params[FirstConvWeight][2] # BeforeExport[FirstConvWeight][2]
    /\ CloseTo(params[FirstConvWeight][2], BeforeExport[FirstConvWeight][2])
    /\ params[FirstConvWeight][1] = BeforeExport[FirstConvWeight][1]

\* C8: extract_weights yields every parameter tensor of the network in
\* traversal order (initial conv block, residual blocks, policy head, value
\* head), for every head configuration and any number of residual blocks.
C8_ExtractYieldsEveryTensorInOrder == extract_weights(Net(cfg)) = ParamNames(cfg)

\* every parameter has been quantized exactly once, and no export or import
\* has touched the model
OnceQuantized ==
    /\ counts.export = 0
    /\ \A key \in DOMAIN params : scale[key] = OncePower(key)

\* C9: in a quantized forward pass after exactly one quantize_parameters
\* call, every tensor a module returns to its caller is an integer tensor
\* at scale Q^1 and every addition combines operands of the same power of Q.
C9_ScaleConsistent ==
    (QUANTIZE_NETWORKS /\ OnceQuantized) =>
        \A i \in 1..Len(Steps) :
            /\ Steps[i].op = "return" =>
                  Steps[i].s = 1 /\ TAllInteger(Steps[i].out)
            /\ \A j \in 1..Len(Steps[i].adds) :
                  Steps[i].adds[j][1] = Steps[i].adds[j][2]

C7_GatherIsInjectiveSelection ==
    (call.fn = "create_gather_tensor" /\ call.done) =>
        LET idx == call.index
            map == call.map
        IN  /\ \A i, j \in 1..Len(idx) : i # j => idx[i] # idx[j]
            /\ \A j \in 1..Len(idx) :
                  idx[j] \in 0..(Len(map) - 1) /\ map[idx[j] + 1] # -1
            /\ \A i, j \in 1..Len(idx) : i < j => map[idx[i] + 1] < map[idx[j] + 1]
            /\ {map[idx[j] + 1] : j \in 1..Len(idx)} = Range(map) \ {-1}
            /\ call.again = idx

C7_Witness ==
    /\ call.fn = "create_gather_tensor" /\ call.done
    /\ Len(call.map) = MaxMapLen
    /\ -1 \in Range(call.map)
    /\ Len(call.index) = 2
    /\ call.index[1] > call.index[2]
    /\ \E i, j \in 1..Len(call.map) : i # j /\ call.map[i] = call.map[j] /\ call.map[i] # -1

\* the channel statistics of a cursed_batchnorm call, as integers:
\* round(gamma * Q), and sqrt(var) * Q
CallGain == DRound(DMulQ(call.gamma))[1]
CallDivisor == DSqrt(call.var_x)[1] * QUANTIZE_FACTOR

C11_ExportLeavesModelUnchanged ==
    last.op = "export_proto" => params = last.before
====
